---- MODULE Spec2Model ----
(***************************************************************************)
(* Model of the basal tracker: the SQLite-backed record store of           *)
(* src/db/db.go (basal_records / basal_intervals, CreateBasalRecord,       *)
(* GetBasalRecordByDate, ListBasalRecords, DeleteBasalRecord,              *)
(* CalculateDailyBasal) and the interactive add flow (runAdd,              *)
(* parseTimeFormat, convertTimeToMinutes).                                 *)
(*                                                                         *)
(* Representation.                                                         *)
(*  - A Go string is a sequence of one-character strings, so that          *)
(*    scanning, slicing and byte-wise comparison are computed as the code  *)
(*    computes them.                                                       *)
(*  - A calendar date is a day number; date.Format("2006-01-02") yields    *)
(*    ISO text whose byte order is the chronological order, and SQLite's   *)
(*    date()/strftime() are the identity on such text, so the day number   *)
(*    stands for the stored text.                                          *)
(*  - A float64 rate is an integer number of tenths of a unit per hour;    *)
(*    a daily total is an integer number of (tenths of a unit) x minutes,  *)
(*    i.e. 600 times the float the code computes.  Rounding of float64     *)
(*    arithmetic is not modelled.                                          *)
(***************************************************************************)
EXTENDS Integers, Sequences, FiniteSets, TLC

(***************************************************************************)
(* Bounds of the model.                                                    *)
(***************************************************************************)
\* number of schedules the store is given by direct calls of CreateBasalRecord
MaxRecords == 2
\* number of schedules the store is given by add sessions
MaxAddRecords == 1
\* number of intervals one add session may accept
MaxIntervals == 2

\* the longest list CalculateDailyBasal is applied to on its own, the example
\* of three intervals apart
MaxCalcIntervals == 2

\* the longest text over ParseAlphabet that parseTimeFormat is applied to on
\* its own
MaxInputLen == 4

\* the calendar dates callers pass: three consecutive days
Dates == {1, 2, 3}

(***************************************************************************)
(* Text: bytes, comparison, slicing.                                       *)
(***************************************************************************)
Digits == {"0", "1", "2", "3", "4", "5", "6", "7", "8", "9"}

DigitVal(c) ==
    CASE c = "0" -> 0 [] c = "1" -> 1 [] c = "2" -> 2 [] c = "3" -> 3
      [] c = "4" -> 4 [] c = "5" -> 5 [] c = "6" -> 6 [] c = "7" -> 7
      [] c = "8" -> 8 [] c = "9" -> 9

DigitChar(n) ==
    CASE n = 0 -> "0" [] n = 1 -> "1" [] n = 2 -> "2" [] n = 3 -> "3"
      [] n = 4 -> "4" [] n = 5 -> "5" [] n = 6 -> "6" [] n = 7 -> "7"
      [] n = 8 -> "8" [] n = 9 -> "9"

\* byte value of the characters the model's texts are made of (ASCII)
ByteOf(c) ==
    CASE c = " " -> 32 [] c = "+" -> 43 [] c = "-" -> 45 [] c = "." -> 46
      [] c \in Digits -> 48 + DigitVal(c)
      [] c = ":" -> 58
      [] c = "a" -> 97 [] c = "b" -> 98 [] c = "c" -> 99

\* memcmp order of two texts (SQLite's BINARY collation, Go's string order)
RECURSIVE TextLess(_, _)
TextLess(a, b) ==
    IF a = <<>> THEN b # <<>>
    ELSE IF b = <<>> THEN FALSE
    ELSE IF Head(a) = Head(b) THEN TextLess(Tail(a), Tail(b))
    ELSE ByteOf(Head(a)) < ByteOf(Head(b))

TextLeq(a, b) == a = b \/ TextLess(a, b)

\* s[lo:hi] of Go, with 0-based lo and exclusive hi
Slice(s, lo, hi) == SubSeq(s, lo + 1, hi)

\* strings.TrimSpace
RECURSIVE TrimLeft(_)
TrimLeft(s) == IF s # <<>> /\ Head(s) = " " THEN TrimLeft(Tail(s)) ELSE s

RECURSIVE TrimRight(_)
TrimRight(s) ==
    IF s # <<>> /\ s[Len(s)] = " " THEN TrimRight(SubSeq(s, 1, Len(s) - 1)) ELSE s

TrimSpace(s) == TrimRight(TrimLeft(s))

(***************************************************************************)
(* fmt.Sscanf(s, "%d:%d", &hour, &min) and strconv.Atoi.                   *)
(***************************************************************************)
\* first position >= p of s that holds no decimal digit
RECURSIVE DigitsEnd(_, _)
DigitsEnd(s, p) ==
    IF p <= Len(s) /\ s[p] \in Digits THEN DigitsEnd(s, p + 1) ELSE p

\* value of the decimal digits s[a..b-1]
RECURSIVE NumVal(_, _, _)
NumVal(s, a, b) ==
    IF b <= a THEN 0 ELSE 10 * NumVal(s, a, b - 1) + DigitVal(s[b - 1])

\* first position >= p of s that holds no space
RECURSIVE SkipSpace(_, _)
SkipSpace(s, p) ==
    IF p <= Len(s) /\ s[p] = " " THEN SkipSpace(s, p + 1) ELSE p

\* the number scanned: its sign is at q when d > q, its digits are s[d..e-1]
ScanNumber(s, q, d, e) ==
    IF e = d THEN [ok |-> FALSE, val |-> 0, next |-> d]
    ELSE [ok |-> TRUE,
          val |-> (IF d > q /\ s[q] = "-" THEN 0 - 1 ELSE 1) * NumVal(s, d, e),
          next |-> e]

ScanDigits(s, q, d) == ScanNumber(s, q, d, DigitsEnd(s, d))

ScanSign(s, q) ==
    ScanDigits(s, q, IF q <= Len(s) /\ s[q] \in {"+", "-"} THEN q + 1 ELSE q)

\* the %d verb at position p: leading spaces, an optional sign, digits
ScanInt(s, p) == ScanSign(s, SkipSpace(s, p))

\* Sscanf with "%d:%d": n operands stored; an operand that is not reached
\* keeps the zero value the callers declare it with.  Input left over after
\* the second number is not an error.
SscanfMin(h, m) ==
    IF ~m.ok THEN [n |-> 1, hour |-> h.val, min |-> 0]
    ELSE [n |-> 2, hour |-> h.val, min |-> m.val]

SscanfColon(s, h) ==
    IF ~h.ok THEN [n |-> 0, hour |-> 0, min |-> 0]
    ELSE IF ~(h.next <= Len(s) /\ s[h.next] = ":")
         THEN [n |-> 1, hour |-> h.val, min |-> 0]
    ELSE SscanfMin(h, ScanInt(s, h.next + 1))

Sscanf(s) == SscanfColon(s, ScanInt(s, 1))

\* strconv.Atoi: an optional sign and at least one digit, nothing else
AtoiNumber(s, n) ==
    IF n.ok /\ n.next = Len(s) + 1 THEN [ok |-> TRUE, val |-> n.val]
    ELSE [ok |-> FALSE, val |-> 0]

Atoi(s) == AtoiNumber(s, ScanSign(s, 1))

\* Sprintf with the bug of the format "%d:%02d", which does not pad the hour
SprintfUnpadded(hour, min) ==
    IF hour < 10
    THEN <<DigitChar(hour), ":", DigitChar(min \div 10), DigitChar(min % 10)>>
    ELSE <<DigitChar(hour \div 10), DigitChar(hour % 10), ":",
           DigitChar(min \div 10), DigitChar(min % 10)>>

\* fmt.Sprintf("%02d:%02d", hour, min) for 0 <= hour, min <= 99
Sprintf(hour, min) ==
    <<DigitChar(hour \div 10), DigitChar(hour % 10), ":",
      DigitChar(min \div 10), DigitChar(min % 10)>>

(***************************************************************************)
(* parseTimeFormat, convertTimeToMinutes (add flow), splitTime (db).       *)
(***************************************************************************)
InRange(hour, min) == hour >= 0 /\ hour <= 23 /\ min >= 0 /\ min <= 59

ParseError == [err |-> TRUE, val |-> <<>>]

ParseOk(hour, min) == [err |-> FALSE, val |-> Sprintf(hour, min)]

\* the HMM / HHMM branches, given what Atoi made of the two pieces
parseHourMin(hour, min) ==
    IF hour.ok /\ min.ok /\ InRange(hour.val, min.val)
    THEN ParseOk(hour.val, min.val)
    ELSE ParseError

\* the first k bytes are the hour, the rest the minute
parseDigits(input, k) ==
    parseHourMin(Atoi(Slice(input, 0, k)), Atoi(Slice(input, k, Len(input))))

\* parseTimeFormat after strings.TrimSpace and the Sscanf attempt sc
parseScanned(input, sc) ==
    IF sc.n = 2
    THEN IF ~InRange(sc.hour, sc.min) THEN ParseError
         ELSE ParseOk(sc.hour, sc.min)
    ELSE IF Len(input) = 3 THEN parseDigits(input, 1)
    ELSE IF Len(input) = 4 THEN parseDigits(input, 2)
    ELSE ParseError

parseTrimmed(input) == parseScanned(input, Sscanf(input))

parseTimeFormat(raw) == parseTrimmed(TrimSpace(raw))

HourMin(sc) == <<sc.hour, sc.min>>

Minutes(parts) == parts[1] * 60 + parts[2]

splitTime(timeStr) == HourMin(Sscanf(timeStr))

convertTimeToMinutes(timeStr) == Minutes(HourMin(Sscanf(timeStr)))

(***************************************************************************)
(* State.                                                                  *)
(***************************************************************************)
VARIABLES
    basal_records,    \* table basal_records: rows [id, date, total_units]
    basal_intervals,  \* table basal_intervals: rows [id, basal_record_id,
                      \*   start_time, end_time, units_per_hour]
    seq_records,      \* sqlite_sequence entry of basal_records (AUTOINCREMENT)
    seq_intervals,    \* sqlite_sequence entry of basal_intervals
    ret,              \* what the last call or prompt returned
    pc,               \* add session: "idle", or the prompt runAdd waits at
    rev,              \* add session: which of the two runAdd bodies runs
    date,             \* add session: the date read by the date prompt
    intervals,        \* add session: runAdd's local slice of intervals
    startTime,        \* add session: runAdd's local startTime
    endTime           \* add session: runAdd's local endTime

store == <<basal_records, basal_intervals, seq_records, seq_intervals>>

session == <<pc, rev, date, intervals, startTime, endTime>>

vars == <<basal_records, basal_intervals, seq_records, seq_intervals, ret,
          pc, rev, date, intervals, startTime, endTime>>

\* db.BasalInterval as the callers of CreateBasalRecord build it
BasalInterval(start, end, units) ==
    [StartTime |-> start, EndTime |-> end, UnitsPerHour |-> units]

\* the zero db.BasalRecord
NoRecord == [ID |-> 0, Date |-> 0, TotalUnits |-> 0]

Ret(op, err) ==
    [op |-> op, err |-> err, k |-> 0, id |-> 0, date |-> 0,
     record |-> NoRecord, intervals |-> <<>>, records |-> <<>>, out |-> <<>>,
     graph |-> <<>>]

(***************************************************************************)
(* float64.  A rate is held in tenths of a unit and a total in minutes x   *)
(* tenths, as integers; the one value that is not a number is held as an   *)
(* integer no rate or total of the model comes near.                       *)
(***************************************************************************)
\* the float64 NaN, which fmt.Sscanf with "%f" reads from the text "NaN"
NaN == 0 - 1000000

\* hours * units, hours being a number
FloatMul(minutes, units) == IF units = NaN THEN NaN ELSE minutes * units

\* a + b
FloatAdd(a, b) == IF a = NaN \/ b = NaN THEN NaN ELSE a + b

\* a < b: no comparison with NaN is true
FloatLess(a, b) == a # NaN /\ b # NaN /\ a < b

(***************************************************************************)
(* CalculateDailyBasal.                                                    *)
(***************************************************************************)
\* Duration with the bug of never taking the end to lie on the next day
DurationSameDay(startMinutes, endMinutes) == endMinutes - startMinutes

\* hours of one interval, in minutes: an end at or before the start is
\* taken to lie on the next day
Duration(startMinutes, endMinutes) ==
    IF endMinutes <= startMinutes
    THEN endMinutes + 24 * 60 - startMinutes
    ELSE endMinutes - startMinutes

\* one pass of the loop body: hours * UnitsPerHour, as minutes x tenths
IntervalUnits(interval) ==
    FloatMul(Duration(Minutes(splitTime(interval.StartTime)),
                      Minutes(splitTime(interval.EndTime))),
             interval.UnitsPerHour)

RECURSIVE CalculateDailyBasal(_)
CalculateDailyBasal(ivs) ==
    IF ivs = <<>> THEN 0
    ELSE FloatAdd(CalculateDailyBasal(SubSeq(ivs, 1, Len(ivs) - 1)),
                  IntervalUnits(ivs[Len(ivs)]))

(***************************************************************************)
(* The schema's constraints and the transaction.                           *)
(***************************************************************************)
\* CHECK (start_time >= '00:00' AND start_time <= '23:59'), likewise end_time
CheckTime(t) == TextLeq(Sprintf(0, 0), t) /\ TextLeq(t, Sprintf(23, 59))

CheckInterval(interval) ==
    CheckTime(interval.StartTime) /\ CheckTime(interval.EndTime)

\* the database as a transaction sees it
Tables(recs, ivs, sr, si) ==
    [records |-> recs, intervals |-> ivs, seq_records |-> sr, seq_intervals |-> si]

\* Rollback with the bug of a transaction that is not undone
RollbackKeeps(before, working) == working

\* tx.Rollback(): everything the transaction wrote is discarded
Rollback(before, working) == before

\* tx.Commit(): everything the transaction wrote becomes the database
Commit(before, working) == working

\* where a storage failure (I/O error, lock) may hit a transaction
Faults(n) ==
    {[at |-> a, k |-> 0] : a \in {"none", "begin", "first", "second", "commit"}}
    \cup {[at |-> "interval", k |-> k] : k \in 1..n}

\* the loop over intervals of CreateBasalRecord from its k-th pass on, in the
\* transaction state w: stops at the first insert that fails
RECURSIVE InsertIntervals(_, _, _, _, _)
InsertIntervals(w, recordID, ivs, k, fault) ==
    IF k > Len(ivs) THEN [tables |-> w, failed |-> 0]
    ELSE IF \/ fault.at = "interval" /\ fault.k = k
            \/ ~CheckInterval(ivs[k])
            \/ ivs[k].UnitsPerHour = NaN
         THEN [tables |-> w, failed |-> k]
    ELSE LET row == [id |-> w.seq_intervals + 1,
                     basal_record_id |-> recordID,
                     start_time |-> ivs[k].StartTime,
                     end_time |-> ivs[k].EndTime,
                     units_per_hour |-> ivs[k].UnitsPerHour]
         IN  InsertIntervals(
                 [w EXCEPT !.intervals = @ \cup {row}, !.seq_intervals = @ + 1],
                 recordID, ivs, k + 1, fault)

CreateResult(db, err, k, id) == [db |-> db, err |-> err, k |-> k, id |-> id]

\* InsertRecord with the bug of replacing the schedules of the same date
InsertRecordReplace(db, d, totalUnits) ==
    [db EXCEPT !.records = {r \in @ : r.date # d}
                               \cup {[id |-> db.seq_records + 1, date |-> d,
                                      total_units |-> totalUnits]},
               !.seq_records = @ + 1]

\* InsertRecord with the bug of not storing the total
InsertRecordNoTotal(db, d, totalUnits) ==
    [db EXCEPT !.records = @ \cup {[id |-> db.seq_records + 1, date |-> d,
                                    total_units |-> 0]},
               !.seq_records = @ + 1]

\* INSERT INTO basal_records (date, total_units)
InsertRecord(db, d, totalUnits) ==
    [db EXCEPT !.records = @ \cup {[id |-> db.seq_records + 1, date |-> d,
                                    total_units |-> totalUnits]},
               !.seq_records = @ + 1]

\* CreateBasalRecord after the loop over intervals: the commit
CreateCommit(db, fault, ins) ==
    IF ins.failed # 0
    THEN CreateResult(Rollback(db, ins.tables), "inserting interval", ins.failed, 0)
    ELSE IF fault.at = "commit"
    THEN CreateResult(Rollback(db, ins.tables), "committing transaction", 0, 0)
    ELSE CreateResult(Commit(db, ins.tables), "", 0, ins.tables.seq_records)

\* CreateIntervals with the bug of an owner id that is off by one
CreateIntervalsWrongOwner(db, ivs, fault, w) ==
    IF fault.at = "second"
    THEN CreateResult(Rollback(db, w), "preparing interval statement", 0, 0)
    ELSE CreateCommit(db, fault, InsertIntervals(w, w.seq_records + 1, ivs, 1, fault))

\* CreateBasalRecord after the schedule insert left the transaction in w
CreateIntervals(db, ivs, fault, w) ==
    IF fault.at = "second"
    THEN CreateResult(Rollback(db, w), "preparing interval statement", 0, 0)
    ELSE CreateCommit(db, fault, InsertIntervals(w, w.seq_records, ivs, 1, fault))

\* CreateBasalRecord from the schedule insert on: SQLite binds a NaN as NULL,
\* which total_units REAL NOT NULL refuses
CreateRecord(db, d, ivs, fault, totalUnits) ==
    IF fault.at = "first" \/ totalUnits = NaN
    THEN CreateResult(Rollback(db, db), "inserting basal record", 0, 0)
    ELSE CreateIntervals(db, ivs, fault, InsertRecord(db, d, totalUnits))

\* CreateBasalRecord(db, date, intervals): the database after the call and
\* the error returned ("" is nil)
CreateBasalRecord(db, d, ivs, fault) ==
    IF fault.at = "begin"
    THEN CreateResult(db, "beginning transaction", 0, 0)
    ELSE CreateRecord(db, d, ivs, fault, CalculateDailyBasal(ivs))

DeleteResult(db, err) == [db |-> db, err |-> err]

\* result.RowsAffected() of DELETE FROM basal_records WHERE id = ?
RowsAffected(db, id) == Cardinality({r \in db.records : r.id = id})

\* DeleteCommit with the bug of not looking at rowsAffected
DeleteCommitUnchecked(db, fault, w, rowsAffected) ==
    IF fault.at = "commit" THEN DeleteResult(Rollback(db, w), "commit")
    ELSE DeleteResult(Commit(db, w), "")

\* DeleteBasalRecord after both DELETE statements left the transaction in w
DeleteCommit(db, fault, w, rowsAffected) ==
    IF rowsAffected = 0
    THEN DeleteResult(Rollback(db, w), "record not found")
    ELSE IF fault.at = "commit" THEN DeleteResult(Rollback(db, w), "commit")
    ELSE DeleteResult(Commit(db, w), "")

\* DeleteIntervals with the bug of leaving the interval rows
DeleteNoIntervals(db, id) == db

\* DELETE FROM basal_intervals WHERE basal_record_id = ?
DeleteIntervals(db, id) ==
    [db EXCEPT !.intervals = {i \in @ : i.basal_record_id # id}]

\* DELETE FROM basal_records WHERE id = ?
DeleteRecord(db, id) == [db EXCEPT !.records = {r \in @ : r.id # id}]

\* DeleteBasalRecord(db, id)
DeleteBasalRecord(db, id, fault) ==
    IF fault.at = "begin" THEN DeleteResult(db, "begin")
    ELSE IF fault.at = "first" THEN DeleteResult(Rollback(db, db), "exec")
    ELSE IF fault.at = "second"
    THEN DeleteResult(Rollback(db, DeleteIntervals(db, id)), "exec")
    ELSE DeleteCommit(db, fault, DeleteRecord(DeleteIntervals(db, id), id),
                      RowsAffected(db, id))

(***************************************************************************)
(* GetBasalRecordByDate and ListBasalRecords.                              *)
(***************************************************************************)
\* FROM basal_records br LEFT JOIN basal_intervals bi
\*   ON br.id = bi.basal_record_id, for the schedules in recs: a schedule
\* without interval rows yields one row whose bi columns are NULL
LeftJoin(db, recs) ==
    {[br |-> r, bi |-> i, null |-> FALSE] :
        <<r, i>> \in {x \in recs \X db.intervals : x[2].basal_record_id = x[1].id}}
    \cup {[br |-> r, bi |-> [id |-> 0], null |-> TRUE] :
        r \in {x \in recs : \A i \in db.intervals : i.basal_record_id # x.id}}

\* ORDER BY bi.start_time: NULL sorts first, text in byte order
RowBefore(x, y) ==
    \/ x.null /\ ~y.null
    \/ ~x.null /\ ~y.null /\ TextLess(x.bi.start_time, y.bi.start_time)

\* every order in which the query may deliver rows (rows with equal keys
\* come in an order SQL leaves open)
RECURSIVE OrderBy(_)
OrderBy(rows) ==
    IF rows = {} THEN {<<>>}
    ELSE UNION {{<<x>> \o s : s \in OrderBy(rows \ {x})} :
                    x \in {m \in rows : \A y \in rows : ~RowBefore(y, m)}}

GetError(err) == [err |-> err, record |-> NoRecord, intervals |-> <<>>]

\* the loop over rows.Scan: every row overwrites record and appends its
\* interval; a NULL bi.id cannot be scanned into an int64
ScanRows(rows) ==
    IF \E k \in 1..Len(rows) : rows[k].null THEN GetError("scan")
    ELSE LET last == rows[Len(rows)].br
         IN  [err |-> "",
              record |-> [ID |-> last.id, Date |-> last.date,
                          TotalUnits |-> last.total_units],
              intervals |->
                  [k \in 1..Len(rows) |->
                      [ID |-> rows[k].bi.id,
                       BasalRecordID |-> rows[k].br.id,
                       StartTime |-> rows[k].bi.start_time,
                       EndTime |-> rows[k].bi.end_time,
                       UnitsPerHour |-> rows[k].bi.units_per_hour]]]

\* ExactMatch with the bug of comparing with >= instead of =
ExactMatchOrLater(db, d) == {r \in db.records : r.date >= d}

\* WHERE date(br.date) = date(?)
ExactMatch(db, d) == {r \in db.records : r.date = d}

\* ClosestPrevious with the bug of ORDER BY date ASC
ClosestPreviousAsc(db, d) ==
    {r \in db.records :
        r.date <= d /\ \A q \in db.records : q.date <= d => r.date <= q.date}

\* WHERE date(date) <= date(?) ORDER BY date DESC LIMIT 1
ClosestPrevious(db, d) ==
    {r \in db.records :
        r.date <= d /\ \A q \in db.records : q.date <= d => q.date <= r.date}

\* Earliest with the bug of ORDER BY date DESC
EarliestDesc(db) == {r \in db.records : \A q \in db.records : q.date <= r.date}

\* Earliest with the bug of leaving the third query out
EarliestNone(db) == {}

\* ORDER BY date ASC LIMIT 1
Earliest(db) == {r \in db.records : \A q \in db.records : r.date <= q.date}

\* the second query, WHERE br.id = ?, and the loop over its rows
GetByID(db, r) ==
    IF LeftJoin(db, {r}) = {} THEN {GetError("no intervals found")}
    ELSE {ScanRows(s) : s \in OrderBy(LeftJoin(db, {r}))}

\* the branch taken when the first query has no row
GetClosest(db, found) ==
    IF found = {} THEN {GetError("no basal records found")}
    ELSE UNION {GetByID(db, r) : r \in found}

\* GetBasalRecordByDate(db, date): every (record, intervals, err) the call
\* may return
GetBasalRecordByDate(db, d) ==
    IF ExactMatch(db, d) # {}
    THEN {ScanRows(s) : s \in OrderBy(LeftJoin(db, ExactMatch(db, d)))}
    ELSE IF ClosestPrevious(db, d) # {} THEN GetClosest(db, ClosestPrevious(db, d))
    ELSE GetClosest(db, Earliest(db))

\* ListBasalRecords with the bug of ORDER BY date ASC
RECURSIVE ListBasalRecordsAsc(_)
ListBasalRecordsAsc(recs) ==
    IF recs = {} THEN {<<>>}
    ELSE UNION {{<<[ID |-> r.id, Date |-> r.date, TotalUnits |-> 0]>> \o s :
                    s \in ListBasalRecordsAsc(recs \ {r})} :
                    r \in {m \in recs : \A q \in recs : m.date <= q.date}}

\* ListBasalRecords(db): every list the call may return (ORDER BY date DESC);
\* total_units is not selected and stays zero
RECURSIVE ListBasalRecords(_)
ListBasalRecords(recs) ==
    IF recs = {} THEN {<<>>}
    ELSE UNION {{<<[ID |-> r.id, Date |-> r.date, TotalUnits |-> 0]>> \o s :
                    s \in ListBasalRecords(recs \ {r})} :
                    r \in {m \in recs : \A q \in recs : q.date <= m.date}}

(***************************************************************************)
(* The calls of the store, as the commands and any other caller make them. *)
(***************************************************************************)
Midnight == Sprintf(0, 0)

Noon == Sprintf(12, 0)

\* interval lists handed to CreateBasalRecord directly: none, a whole day, a
\* day in two halves, the halves in reverse order, and a list whose second
\* end time the schema's CHECK refuses
IntervalLists ==
    {<<>>,
     <<BasalInterval(Midnight, Midnight, 10)>>,
     <<BasalInterval(Midnight, Noon, 8), BasalInterval(Noon, Midnight, 10)>>,
     <<BasalInterval(Noon, Midnight, 10), BasalInterval(Midnight, Noon, 8)>>,
     <<BasalInterval(Midnight, Noon, 8), BasalInterval(Noon, Sprintf(24, 0), 10)>>}

Database == Tables(basal_records, basal_intervals, seq_records, seq_intervals)

SetDatabase(db) ==
    /\ basal_records' = db.records
    /\ basal_intervals' = db.intervals
    /\ seq_records' = db.seq_records
    /\ seq_intervals' = db.seq_intervals

Init ==
    /\ basal_records = {}
    /\ basal_intervals = {}
    /\ seq_records = 0
    /\ seq_intervals = 0
    /\ ret = Ret("init", "")
    /\ pc = "idle"
    /\ rev = 1
    /\ date = 0
    /\ intervals = <<>>
    /\ startTime = <<>>
    /\ endTime = <<>>

\* what a call of CreateBasalRecord leaves in ret
CreateRet(r, d, ivs) ==
    IF r.err # "" THEN [Ret("create", r.err) EXCEPT !.k = r.k]
    ELSE [Ret("create", "") EXCEPT !.id = r.id, !.date = d, !.intervals = ivs]

CreateBasalRecordCall(d, ivs, fault) ==
    /\ pc = "idle"
    /\ seq_records < MaxRecords
    /\ LET r == CreateBasalRecord(Database, d, ivs, fault)
       IN  /\ SetDatabase(r.db)
           /\ ret' = CreateRet(r, d, ivs)
    /\ UNCHANGED session

DeleteBasalRecordCall(id, fault) ==
    /\ pc = "idle"
    /\ LET r == DeleteBasalRecord(Database, id, fault)
       IN  /\ SetDatabase(r.db)
           /\ ret' = [Ret("delete", r.err) EXCEPT !.id = id]
    /\ UNCHANGED session

\* date.Format("2006-01-02") for the days of the model, which lie in one
\* month
Format(d) == <<"2", "0", "2", "4", "-", "0", "1", "-", "0", DigitChar(d)>>

\* showHeader with the bug of always printing the date asked for
showHeaderExact(r, d) ==
    IF r.err # "" THEN <<>> ELSE <<"exact", Format(d)>>

\* the line runShow prints above the table: "Showing closest record from:"
\* and the schedule's date, or the date asked for; nothing when the call
\* failed
showHeader(r, d) ==
    IF r.err # "" THEN <<>>
    ELSE IF Format(r.record.Date) # Format(d)
    THEN <<"closest", Format(r.record.Date)>>
    ELSE <<"exact", Format(d)>>

\* runShow: GetBasalRecordByDate and the header line
GetBasalRecordByDateCall(d) ==
    /\ pc = "idle"
    /\ \E r \in GetBasalRecordByDate(Database, d) :
           ret' = [Ret("get", r.err) EXCEPT
                     !.date = d, !.record = r.record, !.intervals = r.intervals,
                     !.out = showHeader(r, d)]
    /\ UNCHANGED <<store, session>>

ListBasalRecordsCall ==
    /\ pc = "idle"
    /\ \E l \in ListBasalRecords(basal_records) :
           ret' = [Ret("list", "") EXCEPT !.records = l]
    /\ UNCHANGED <<store, session>>

Next ==
    \/ \E d \in Dates, ivs \in IntervalLists :
           \E fault \in Faults(Len(ivs)) : CreateBasalRecordCall(d, ivs, fault)
    \/ \E id \in 1..(MaxRecords + 1), fault \in Faults(0) :
           DeleteBasalRecordCall(id, fault)
    \/ \E d \in Dates : GetBasalRecordByDateCall(d)
    \/ ListBasalRecordsCall

Spec == Init /\ [][Next]_vars

(***************************************************************************)
(* The add flow: runAdd, in the two bodies the repository holds (rev 1:    *)
(* entry ends with an empty start time, coverage is checked after the      *)
(* loop; rev 2: entry ends with the interval that ends at 00:00 and a      *)
(* confirmation), one action per prompt.                                   *)
(***************************************************************************)
\* fmt.Sscanf(input, "%f", &units): NaN, or an optional sign, digits, an
\* optional point and digits; the value in tenths (the inputs of the model have at
\* most one digit after the point)
ScanFloatNumber(s, q, d, e, f) ==
    IF e = d /\ f <= e + 1 THEN [ok |-> FALSE, val |-> 0]
    ELSE [ok |-> TRUE,
          val |-> (IF d > q /\ s[q] = "-" THEN 0 - 1 ELSE 1)
                  * (10 * NumVal(s, d, e)
                     + (IF f > e + 1 THEN DigitVal(s[e + 1]) ELSE 0))]

ScanFloatFraction(s, q, d, e) ==
    ScanFloatNumber(s, q, d, e,
        IF e <= Len(s) /\ s[e] = "." THEN DigitsEnd(s, e + 1) ELSE e)

ScanFloatDigits(s, q, d) == ScanFloatFraction(s, q, d, DigitsEnd(s, d))

ScanFloatSign(s, q) ==
    ScanFloatDigits(s, q, IF q <= Len(s) /\ s[q] \in {"+", "-"} THEN q + 1 ELSE q)

\* the text NaN, in either case, is read as the value NaN
ScanFloatNaN(s, q) ==
    IF /\ q + 2 <= Len(s)
       /\ s[q] \in {"n", "N"} /\ s[q + 1] \in {"a", "A"} /\ s[q + 2] \in {"n", "N"}
    THEN [ok |-> TRUE, val |-> NaN]
    ELSE ScanFloatSign(s, q)

ScanFloat(s) == ScanFloatNaN(s, SkipSpace(s, 1))

\* what the user may type at a time prompt
TimeInputs ==
    {<<>>,
     <<"0", "0", ":", "0", "0">>,
     <<"0", "0", "0", "0">>,
     <<"6", "0", "0">>,
     <<"1", "2", ":", "0", "0">>,
     <<"2", "4", ":", "0", "0">>,
     <<"a", "b", "c">>}

\* what the user may type at the units prompt
UnitsInputs == {<<"1">>, <<"-", "1">>, <<"a", "b", "c">>, <<"N", "a", "N">>}

\* startPrompt.Validate with the bug of not comparing with the previous end
startValidateUnchained(r, ivs, p) ==
    IF p.err THEN "invalid time"
    ELSE IF r = 2 /\ Len(ivs) = 0 /\ p.val # Midnight
    THEN "first interval must start at 00:00"
    ELSE ""

\* startPrompt.Validate with the bug of comparing with the end of the first
\* interval instead of the last
startValidateFirstEnd(r, ivs, p) ==
    IF p.err THEN "invalid time"
    ELSE IF r = 2 /\ Len(ivs) = 0 /\ p.val # Midnight
    THEN "first interval must start at 00:00"
    ELSE IF Len(ivs) > 0 /\ p.val # ivs[1].EndTime
    THEN "start time must match previous end time"
    ELSE ""

\* startPrompt.Validate, given what parseTimeFormat made of the input
startValidateParsed(r, ivs, p) ==
    IF p.err THEN "invalid time"
    ELSE IF r = 2 /\ Len(ivs) = 0 /\ p.val # Midnight
    THEN "first interval must start at 00:00"
    ELSE IF Len(ivs) > 0 /\ p.val # ivs[Len(ivs)].EndTime
    THEN "start time must match previous end time"
    ELSE ""

\* startPrompt.Validate: "" is nil
startValidate(r, ivs, input) ==
    IF r = 1 /\ input = <<>> THEN ""
    ELSE startValidateParsed(r, ivs, parseTimeFormat(input))

\* endPrompt.Validate with the bug of comparing with < instead of <=
endValidateNotBefore(r, start, p) ==
    IF p.err THEN "invalid time"
    ELSE IF r = 1 /\ p.val = Midnight THEN ""
    ELSE IF convertTimeToMinutes(p.val) < convertTimeToMinutes(start)
    THEN "end time must be after start time"
    ELSE ""

\* endPrompt.Validate, given what parseTimeFormat made of the input
endValidateParsed(r, start, p) ==
    IF p.err THEN "invalid time"
    ELSE IF r = 1 /\ p.val = Midnight THEN ""
    ELSE IF convertTimeToMinutes(p.val) <= convertTimeToMinutes(start)
    THEN "end time must be after start time"
    ELSE ""

endValidate(r, start, input) == endValidateParsed(r, start, parseTimeFormat(input))

\* unitsPrompt.Validate, given what Sscanf made of the input
unitsValidateScanned(f) ==
    IF ~f.ok \/ FloatLess(f.val, 0) THEN "invalid units value" ELSE ""

unitsValidate(input) == unitsValidateScanned(ScanFloat(input))

\* coverageCheck with the bug of not looking at the first start time
coverageCheckNoStart(ivs) ==
    IF Len(ivs) = 0 THEN "no intervals provided"
    ELSE IF ivs[Len(ivs)].EndTime # Midnight THEN "last interval must end at 00:00"
    ELSE ""

\* the checks of rev 1 between the loop and CreateBasalRecord
coverageCheck(ivs) ==
    IF Len(ivs) = 0 THEN "no intervals provided"
    ELSE IF ivs[1].StartTime # Midnight THEN "first interval must start at 00:00"
    ELSE IF ivs[Len(ivs)].EndTime # Midnight THEN "last interval must end at 00:00"
    ELSE ""

\* runAdd returns: the session is over, the session's variables keep what
\* they held
Return(r) ==
    /\ ret' = r
    /\ pc' = "idle"
    /\ UNCHANGED <<rev, date, startTime, endTime>>

\* runAdd calls CreateBasalRecord with ivs and returns
Save(ivs, fault) ==
    LET r == CreateBasalRecord(Database, date, ivs, fault)
    IN  /\ SetDatabase(r.db)
        /\ Return([Ret("add-create", r.err) EXCEPT
                     !.k = r.k, !.id = r.id, !.date = date, !.intervals = ivs])

\* runAdd returns without calling CreateBasalRecord
Quit(err) ==
    /\ Return(Ret("add-quit", err))
    /\ UNCHANGED store

\* a prompt refuses the input and asks again
Refuse(op, err) ==
    /\ ret' = Ret(op, err)
    /\ UNCHANGED <<store, session>>

\* runAdd up to the first start prompt: InitDB and the date prompt
runAdd(r, d) ==
    /\ pc = "idle"
    /\ seq_records < MaxAddRecords
    /\ pc' = "start"
    /\ rev' = r
    /\ date' = d
    /\ intervals' = <<>>
    /\ startTime' = <<>>
    /\ endTime' = <<>>
    /\ ret' = Ret("runAdd", "")
    /\ UNCHANGED store

\* the start prompt and what follows it up to the next prompt
startPrompt(input, fault) ==
    /\ pc = "start"
    /\ IF startValidate(rev, intervals, input) # ""
       THEN Refuse("startPrompt", startValidate(rev, intervals, input))
       ELSE IF input = <<>>
       THEN /\ UNCHANGED intervals
            /\ IF coverageCheck(intervals) # ""
               THEN Quit(coverageCheck(intervals))
               ELSE Save(intervals, fault)
       ELSE /\ Len(intervals) < MaxIntervals
            /\ startTime' = parseTimeFormat(input).val
            /\ pc' = "end"
            /\ ret' = Ret("startPrompt", "")
            /\ UNCHANGED <<store, rev, date, intervals, endTime>>

\* the end prompt
endPrompt(input) ==
    /\ pc = "end"
    /\ IF endValidate(rev, startTime, input) # ""
       THEN Refuse("endPrompt", endValidate(rev, startTime, input))
       ELSE /\ endTime' = parseTimeFormat(input).val
            /\ pc' = "units"
            /\ ret' = Ret("endPrompt", "")
            /\ UNCHANGED <<store, rev, date, intervals, startTime>>

\* the interval appended after the units prompt
Appended(input) ==
    Append(intervals, BasalInterval(startTime, endTime, ScanFloat(input).val))

\* the units prompt and what follows it up to the next prompt: in rev 2 an
\* interval that ends at 00:00 ends the loop, and the confirm prompt decides
\* whether the record is saved
unitsPrompt(input, confirm, fault) ==
    /\ pc = "units"
    /\ IF unitsValidate(input) # ""
       THEN Refuse("unitsPrompt", unitsValidate(input))
       ELSE /\ intervals' = Appended(input)
            /\ IF rev = 2 /\ endTime = Midnight
               THEN IF confirm THEN Save(Appended(input), fault)
                    ELSE Quit("Record not saved.")
               ELSE /\ pc' = "start"
                    /\ ret' = Ret("unitsPrompt", "")
                    /\ UNCHANGED <<store, rev, date, startTime, endTime>>

\* a prompt fails (interrupt, end of input): runAdd returns the error
promptFailed ==
    /\ pc \in {"start", "end", "units"}
    /\ UNCHANGED intervals
    /\ Quit("prompt failed")

NextAdd ==
    \/ \E r \in {1, 2}, d \in Dates : runAdd(r, d)
    \/ \E input \in TimeInputs, fault \in Faults(MaxIntervals) :
           startPrompt(input, fault)
    \/ \E input \in TimeInputs : endPrompt(input)
    \/ \E input \in UnitsInputs, confirm \in BOOLEAN, fault \in Faults(MaxIntervals) :
           unitsPrompt(input, confirm, fault)
    \/ promptFailed

SpecAdd == Init /\ [][NextAdd]_vars

(***************************************************************************)
(* The add flow followed by runShow with its graph (generateGraphData):    *)
(* what is shown of the schedules that runAdd stored.                      *)
(***************************************************************************)
\* position of the first ":" of s at or after p, Len(s) + 1 when there is
\* none
RECURSIVE ColonAt(_, _)
ColonAt(s, p) ==
    IF p <= Len(s) /\ s[p] # ":" THEN ColonAt(s, p + 1) ELSE p

\* parts[0] and parts[1] of strings.Split(timeStr, ":"), the first colon
\* being at c
SplitParts(s, c) == <<SubSeq(s, 1, c - 1), SubSeq(s, c + 1, ColonAt(s, c + 1) - 1)>>

\* timeToMinutes: the errors of strconv.Atoi are dropped, a piece that is
\* not a number counts as 0
timeToMinutesParts(parts) == Atoi(parts[1]).val * 60 + Atoi(parts[2]).val

timeToMinutes(timeStr) == timeToMinutesParts(SplitParts(timeStr, ColonAt(timeStr, 1)))

\* end of the inner loop of generateGraphData: an end of 0 is minute 1440
graphEnd(end) == IF end = 0 THEN 1440 ELSE end

\* the interval ivs[k] writes its rate to data[i]
Fills(ivs, k, i) ==
    /\ timeToMinutes(ivs[k].StartTime) <= i
    /\ i < graphEnd(timeToMinutes(ivs[k].EndTime))

\* Writer with the bug of keeping the first interval that wrote a minute
FirstWriter(ivs, i) ==
    IF \A k \in 1..Len(ivs) : ~Fills(ivs, k, i) THEN 0
    ELSE CHOOSE k \in 1..Len(ivs) :
             Fills(ivs, k, i) /\ \A j \in 1..(k - 1) : ~Fills(ivs, j, i)

\* the last interval of the list that writes data[i], 0 when none does
Writer(ivs, i) ==
    IF \A k \in 1..Len(ivs) : ~Fills(ivs, k, i) THEN 0
    ELSE CHOOSE k \in 1..Len(ivs) :
             Fills(ivs, k, i) /\ \A j \in (k + 1)..Len(ivs) : ~Fills(ivs, j, i)

\* generateGraphData: data[0..1439], zero where no interval wrote
generateGraphData(ivs) ==
    [i \in 0..1439 |->
        IF Writer(ivs, i) = 0 THEN 0 ELSE ivs[Writer(ivs, i)].UnitsPerHour]

\* runShow of src/unnamed/part_003: the schedule found, the header line and
\* the graph data
runShow(d) ==
    /\ pc = "idle"
    /\ \E r \in GetBasalRecordByDate(Database, d) :
           ret' = [Ret("show", r.err) EXCEPT
                     !.date = d, !.record = r.record, !.intervals = r.intervals,
                     !.out = showHeader(r, d),
                     !.graph = IF r.err # "" THEN <<>>
                               ELSE generateGraphData(r.intervals)]
    /\ UNCHANGED <<store, session>>

NextShow ==
    \/ NextAdd
    \/ \E d \in Dates : runShow(d)

SpecShow == Init /\ [][NextShow]_vars

(***************************************************************************)
(* CalculateDailyBasal on its own, as runShow applies it to the intervals  *)
(* it was given: the list is drawn at the start, the call leaves the total *)
(* in ret.                                                                 *)
(***************************************************************************)
\* [00:00-06:00 @ 0.8, 06:00-18:00 @ 1.0, 18:00-00:00 @ 0.9]
ExampleDay ==
    <<BasalInterval(Midnight, Sprintf(6, 0), 8),
      BasalInterval(Sprintf(6, 0), Sprintf(18, 0), 10),
      BasalInterval(Sprintf(18, 0), Midnight, 9)>>

\* the intervals the lists are made of: in order, wrapping, of no length
CalcIntervals ==
    {BasalInterval(s, e, u) :
        s \in {Midnight, Sprintf(6, 0), Sprintf(18, 0)},
        e \in {Midnight, Sprintf(6, 0), Sprintf(18, 0)},
        u \in {0, 8, 10}}

CalcLists ==
    {ExampleDay} \cup UNION {[1..n -> CalcIntervals] : n \in 0..MaxCalcIntervals}

InitCalc ==
    /\ basal_records = {}
    /\ basal_intervals = {}
    /\ seq_records = 0
    /\ seq_intervals = 0
    /\ ret = Ret("init", "")
    /\ pc = "idle"
    /\ rev = 1
    /\ date = 0
    /\ intervals \in CalcLists
    /\ startTime = <<>>
    /\ endTime = <<>>

\* dailyTotal := db.CalculateDailyBasal(intervals)
CalculateDailyBasalCall ==
    /\ ret' = [Ret("total", "") EXCEPT
                 !.k = CalculateDailyBasal(intervals), !.intervals = intervals]
    /\ UNCHANGED <<store, session>>

NextCalc == CalculateDailyBasalCall

SpecCalc == InitCalc /\ [][NextCalc]_vars

(***************************************************************************)
(* CreateBasalRecord on its own, given interval lists whose time texts the *)
(* add flow would not produce: the list is drawn at the start, one call    *)
(* stores it or fails.                                                     *)
(***************************************************************************)
\* time texts: clock times, and texts with an hour of 24, a minute of 60 or
\* more, letters, nothing
CheckTexts ==
    {Midnight, Noon, Sprintf(23, 59), Sprintf(24, 0), Sprintf(23, 60),
     Sprintf(12, 60), Sprintf(19, 99), <<"a", "b", "c">>, <<>>}

\* lists of one interval, and of a whole-day interval followed by one
CheckLists ==
    UNION {{<<BasalInterval(s, e, 10)>>,
            <<BasalInterval(Midnight, Midnight, 10), BasalInterval(s, e, 10)>>} :
               s \in CheckTexts, e \in CheckTexts}

InitCheck ==
    /\ basal_records = {}
    /\ basal_intervals = {}
    /\ seq_records = 0
    /\ seq_intervals = 0
    /\ ret = Ret("init", "")
    /\ pc = "idle"
    /\ rev = 1
    /\ date = 0
    /\ intervals \in CheckLists
    /\ startTime = <<>>
    /\ endTime = <<>>

\* db.CreateBasalRecord(database, date, intervals), no storage failure
CreateBasalRecordOnce ==
    /\ ret.op = "init"
    /\ LET r == CreateBasalRecord(Database, 1, intervals, [at |-> "none", k |-> 0])
       IN  /\ SetDatabase(r.db)
           /\ ret' = CreateRet(r, 1, intervals)
    /\ UNCHANGED session

NextCheck == CreateBasalRecordOnce

SpecCheck == InitCheck /\ [][NextCheck]_vars

(***************************************************************************)
(* parseTimeFormat and convertTimeToMinutes on their own, as the prompts   *)
(* apply them to what the user typed: the text is drawn at the start, the  *)
(* call leaves the error or the normalized time and its minutes in ret.    *)
(***************************************************************************)
ParseAlphabet == {"0", "1", "2", "6", ":", "a", "+"}

\* every text over the alphabet up to the bound, and longer texts: times
\* with two-digit hours, with spaces around, with letters behind
ParseInputs ==
    UNION {[1..n -> ParseAlphabet] : n \in 0..MaxInputLen}
    \cup {Sprintf(h, m) : h \in {0, 12, 23, 24, 25}, m \in {0, 30, 59, 60}}
    \cup {<<"a", "b", "c">>, <<"9", "9">>,
          <<" ", "1", "2", ":", "0", "0", " ">>,
          <<"1", "2", ":", "0", "0", "a">>,
          <<"-", "1", ":", "0", "0">>}

InitParse ==
    /\ basal_records = {}
    /\ basal_intervals = {}
    /\ seq_records = 0
    /\ seq_intervals = 0
    /\ ret = Ret("init", "")
    /\ pc = "idle"
    /\ rev = 1
    /\ date = 0
    /\ intervals = <<>>
    /\ startTime \in ParseInputs
    /\ endTime = <<>>

\* what normalized, err := parseTimeFormat(input) and then
\* convertTimeToMinutes(normalized) leave
parseRet(p) ==
    IF p.err THEN Ret("parse", "invalid time")
    ELSE [Ret("parse", "") EXCEPT !.out = p.val, !.k = convertTimeToMinutes(p.val)]

parseTimeFormatCall ==
    /\ ret' = parseRet(parseTimeFormat(startTime))
    /\ UNCHANGED <<store, session>>

NextParse == parseTimeFormatCall

SpecParse == InitParse /\ [][NextParse]_vars

(***************************************************************************)
(* The ask command: runAsk, in the two bodies the repository holds (the    *)
(* first validates the generated query with validateSQLQuery, the second   *)
(* hands it to database.Query as it came).  The text the language model    *)
(* answers with is an input; of SQL the model knows the statements below.  *)
(***************************************************************************)
UpperCase == <<"A", "B", "C", "D", "E", "F", "G", "H", "I", "J", "K", "L",
               "M", "N", "O", "P", "Q", "R", "S", "T", "U", "V", "W", "X",
               "Y", "Z">>

LowerCase == <<"a", "b", "c", "d", "e", "f", "g", "h", "i", "j", "k", "l",
               "m", "n", "o", "p", "q", "r", "s", "t", "u", "v", "w", "x",
               "y", "z">>

\* strings.ToLower, letter by letter
ToLowerChar(c) ==
    IF \E k \in 1..26 : UpperCase[k] = c
    THEN LowerCase[CHOOSE k \in 1..26 : UpperCase[k] = c]
    ELSE c

ToLower(s) == [k \in 1..Len(s) |-> ToLowerChar(s[k])]

\* strings.HasPrefix
HasPrefix(s, prefix) ==
    Len(prefix) <= Len(s) /\ SubSeq(s, 1, Len(prefix)) = prefix

\* strings.Contains
Contains(s, substr) ==
    \E k \in 1..(Len(s) - Len(substr) + 1) :
        SubSeq(s, k, k + Len(substr) - 1) = substr

Select == <<"s", "e", "l", "e", "c", "t">>

\* the words validateSQLQuery looks for
Forbidden == {<<"d", "r", "o", "p">>,
              <<"d", "e", "l", "e", "t", "e">>,
              <<"u", "p", "d", "a", "t", "e">>,
              <<"i", "n", "s", "e", "r", "t">>}

\* validateSQLQuery with the bug of looking at the first word only
validateFirstWord(query) ==
    IF ~HasPrefix(query, Select)
    THEN "invalid query: only SELECT queries are allowed"
    ELSE ""

\* validateSQLQuery after strings.TrimSpace(strings.ToLower(query)): "" is
\* nil
validateLowered(query) ==
    IF ~HasPrefix(query, Select)
    THEN "invalid query: only SELECT queries are allowed"
    ELSE IF \E w \in Forbidden : Contains(query, w)
    THEN "invalid query: only SELECT queries are allowed"
    ELSE ""

validateSQLQuery(query) == validateLowered(TrimSpace(ToLower(query)))

\* what the language model may answer
AskQueries ==
    {<<"S", "E", "L", "E", "C", "T", " ", "*", " ", "F", "R", "O", "M", " ",
       "b", "a", "s", "a", "l", "_", "r", "e", "c", "o", "r", "d", "s">>,
     <<" ", "s", "e", "l", "e", "c", "t", " ", "i", "d", " ", "f", "r", "o",
       "m", " ", "b", "a", "s", "a", "l", "_", "i", "n", "t", "e", "r", "v",
       "a", "l", "s", " ">>,
     <<"D", "E", "L", "E", "T", "E", " ", "F", "R", "O", "M", " ", "b", "a",
       "s", "a", "l", "_", "i", "n", "t", "e", "r", "v", "a", "l", "s">>,
     <<"D", "e", "l", "e", "t", "e", " ", "f", "r", "o", "m", " ", "b", "a",
       "s", "a", "l", "_", "r", "e", "c", "o", "r", "d", "s">>,
     <<"U", "P", "D", "A", "T", "E", " ", "b", "a", "s", "a", "l", "_", "r",
       "e", "c", "o", "r", "d", "s", " ", "S", "E", "T", " ", "t", "o", "t",
       "a", "l", "_", "u", "n", "i", "t", "s", " ", "=", " ", "0">>,
     <<"a", "b", "c">>}

\* the statements, in lower case, that change the tables
DeleteIntervalsSQL == <<"d", "e", "l", "e", "t", "e", " ", "f", "r", "o", "m", " ", "b", "a",
      "s", "a", "l", "_", "i", "n", "t", "e", "r", "v", "a", "l", "s">>

DeleteRecordsSQL == <<"d", "e", "l", "e", "t", "e", " ", "f", "r", "o", "m", " ", "b", "a",
      "s", "a", "l", "_", "r", "e", "c", "o", "r", "d", "s">>

UpdateTotalsSQL == <<"u", "p", "d", "a", "t", "e", " ", "b", "a", "s", "a", "l", "_", "r",
      "e", "c", "o", "r", "d", "s", " ", "s", "e", "t", " ", "t", "o", "t",
      "a", "l", "_", "u", "n", "i", "t", "s", " ", "=", " ", "0">>

\* database.Query(sqlQuery) and the loop over rows.Next(), for the lowered
\* statement: a SELECT changes nothing, the DELETEs empty a table (foreign
\* keys are not enforced), the UPDATE sets every total to zero, anything
\* else is refused by SQLite
QueryLowered(db, stmt) ==
    IF HasPrefix(stmt, Select) THEN [db |-> db, err |-> ""]
    ELSE IF stmt = DeleteIntervalsSQL
    THEN [db |-> [db EXCEPT !.intervals = {}], err |-> ""]
    ELSE IF stmt = DeleteRecordsSQL
    THEN [db |-> [db EXCEPT !.records = {}], err |-> ""]
    ELSE IF stmt = UpdateTotalsSQL
    THEN [db |-> [db EXCEPT !.records = {[r EXCEPT !.total_units = 0] : r \in @}],
          err |-> ""]
    ELSE [db |-> db, err |-> "error executing query"]

Query(db, sqlQuery) == QueryLowered(db, TrimSpace(ToLower(sqlQuery)))

\* what a run of runAsk leaves in ret: the body, the query, the error
AskRet(r, sqlQuery, err) ==
    [Ret("ask", err) EXCEPT !.k = r, !.out = sqlQuery]

\* runAsk from the answer of callOllama on: body 1 validates the trimmed
\* query before the database is opened, body 2 does not
runAsk(r, answer) ==
    /\ pc = "idle"
    /\ IF r = 1 /\ validateSQLQuery(TrimSpace(answer)) # ""
       THEN /\ ret' = AskRet(r, TrimSpace(answer), validateSQLQuery(TrimSpace(answer)))
            /\ UNCHANGED store
       ELSE /\ SetDatabase(Query(Database, TrimSpace(answer)).db)
            /\ ret' = AskRet(r, TrimSpace(answer), Query(Database, TrimSpace(answer)).err)
    /\ UNCHANGED session

NextAsk ==
    \/ \E d \in {1, 2}, ivs \in IntervalLists :
           CreateBasalRecordCall(d, ivs, [at |-> "none", k |-> 0])
    \/ \E r \in {1, 2}, answer \in AskQueries : runAsk(r, answer)

SpecAsk == Init /\ [][NextAsk]_vars

(***************************************************************************)
(* Properties of the store.                                                *)
(***************************************************************************)
\* the schedule rows of the store that own at least one interval row
HasIntervals(r) == \E i \in basal_intervals : i.basal_record_id = r.id

\* the (start, end, rate) triples of a list of intervals
Triples(ivs) ==
    {BasalInterval(ivs[k].StartTime, ivs[k].EndTime, ivs[k].UnitsPerHour) :
        k \in 1..Len(ivs)}

\* ret is what a successful CreateBasalRecord(d, L) with non-empty L returned
Created == ret.op = "create" /\ ret.err = "" /\ ret.intervals # <<>>

\* the stored dates on or before d
DatesUpTo(d) == {r.date : r \in {x \in basal_records : x.date <= d}}

\* C1 (as claimed): right after CreateBasalRecord(d, L) succeeded with a
\* non-empty L, whatever else is stored, GetBasalRecordByDate(d) returns
\* exactly the intervals of L and a schedule whose total is
\* CalculateDailyBasal(L).
C1_RoundTrip ==
    Created =>
        \A out \in GetBasalRecordByDate(Database, ret.date) :
            /\ out.err = ""
            /\ Len(out.intervals) = Len(ret.intervals)
            /\ Triples(out.intervals) = Triples(ret.intervals)
            /\ out.record.TotalUnits = CalculateDailyBasal(ret.intervals)

PriorCase(d) ==
    /\ \A r \in basal_records : r.date # d
    /\ \E r \in basal_records : r.date < d

EarliestCase(d) ==
    /\ basal_records # {}
    /\ \A r \in basal_records : r.date > d

NewRecordRow == [id |-> ret'.id, date |-> ret'.date,
                 total_units |-> CalculateDailyBasal(ret'.intervals)]

NewIntervalRows ==
    {[id |-> seq_intervals + k,
      basal_record_id |-> ret'.id,
      start_time |-> ret'.intervals[k].StartTime,
      end_time |-> ret'.intervals[k].EndTime,
      units_per_hour |-> ret'.intervals[k].UnitsPerHour] :
        k \in 1..Len(ret'.intervals)}

\* C6: CreateBasalRecord is all-or-nothing: a call that returns an error
\* leaves both tables as they were before the call; a call that returns nil
\* has added the schedule row and one interval row per interval of its list,
\* and nothing else.
C6_CreateAllOrNothing ==
    [][ret'.op = "create" =>
          IF ret'.err # ""
          THEN basal_records' = basal_records /\ basal_intervals' = basal_intervals
          ELSE /\ NewRecordRow \notin basal_records
               /\ basal_records' = basal_records \cup {NewRecordRow}
               /\ NewIntervalRows \cap basal_intervals = {}
               /\ basal_intervals' = basal_intervals \cup NewIntervalRows
               /\ Cardinality(NewIntervalRows) = Len(ret'.intervals)]_vars

\* C6 witness: a call failed at its second interval, after the schedule row
\* and the first interval row had been inserted, on a store that holds rows.
C6_Witness ==
    /\ ret.op = "create" /\ ret.err = "inserting interval" /\ ret.k = 2
    /\ basal_records # {}

\* the ids AUTOINCREMENT has handed out to schedules that are gone
Deleted == {id \in 1..seq_records : \A r \in basal_records : r.id # id}

\* C7: once DeleteBasalRecord(id) has succeeded, the store holds no schedule
\* row with that id and no interval row owned by it, and no
\* GetBasalRecordByDate returns that schedule or an interval of it.
C7_DeleteRemovesAll ==
    /\ (ret.op = "delete" /\ ret.err = "") => ret.id \in Deleted
    /\ \A id \in Deleted :
           /\ \A i \in basal_intervals : i.basal_record_id # id
           /\ \A d \in Dates :
                  \A out \in GetBasalRecordByDate(Database, d) :
                      /\ out.record.ID # id
                      /\ \A k \in 1..Len(out.intervals) :
                             out.intervals[k].BasalRecordID # id

\* C7 witness: a schedule with intervals was deleted while another schedule
\* stays, and a lookup then returned the other one.
C7_Witness ==
    /\ ret.op = "get" /\ ret.err = ""
    /\ Deleted # {}
    /\ seq_intervals > Cardinality(basal_intervals)

\* C8: DeleteBasalRecord(id) for an id no stored schedule has returns the
\* not-found error (or the storage error that hit it) and leaves both tables
\* unchanged.
C8_DeleteMissing ==
    [][(ret'.op = "delete" /\ \A r \in basal_records : r.id # ret'.id) =>
          /\ ret'.err # ""
          /\ basal_records' = basal_records
          /\ basal_intervals' = basal_intervals
          /\ (ret'.err # "record not found" => ret'.err \in {"begin", "exec"})]_vars

\* C8 witness: the not-found error was returned on a store that holds
\* schedules and intervals.
C8_Witness ==
    /\ ret.op = "delete" /\ ret.err = "record not found"
    /\ basal_records # {} /\ basal_intervals # {}

(***************************************************************************)
(* Properties of the add flow.                                             *)
(***************************************************************************)
\* a list that starts at 00:00, ends at 00:00 and has no gap or overlap
\* between neighbours
Covered(ivs) ==
    /\ ivs # <<>>
    /\ ivs[1].StartTime = Midnight
    /\ ivs[Len(ivs)].EndTime = Midnight
    /\ \A k \in 1..(Len(ivs) - 1) : ivs[k].EndTime = ivs[k + 1].StartTime

EndsAtMidnight(ivs) == \E k \in 1..Len(ivs) : ivs[k].EndTime = Midnight

\* C9: every interval list runAdd passes to CreateBasalRecord is non-empty,
\* starts at 00:00, ends at 00:00 and chains end to start; and a session
\* that returns while no accepted interval ends at 00:00 leaves the store
\* as it was.
C9_AddPassesCoveredDay ==
    [][/\ ret'.op = "add-create" => Covered(ret'.intervals)
       /\ (pc # "idle" /\ pc' = "idle" /\ ~EndsAtMidnight(intervals')) =>
              /\ ret'.op = "add-quit"
              /\ basal_records' = basal_records
              /\ basal_intervals' = basal_intervals]_vars

\* C9 witness: a session handed a day in two intervals to CreateBasalRecord,
\* which stored it.
C9_Witness ==
    /\ ret.op = "add-create" /\ ret.err = ""
    /\ Len(ret.intervals) = 2
    /\ ret.intervals[1].EndTime # Midnight
    /\ \E r \in basal_records : r.id = ret.id

\* minutes covered by a list, each interval counted as CalculateDailyBasal
\* counts it
RECURSIVE TotalMinutes(_)
TotalMinutes(ivs) ==
    IF ivs = <<>> THEN 0
    ELSE TotalMinutes(Tail(ivs))
         + Duration(convertTimeToMinutes(ivs[1].StartTime),
                    convertTimeToMinutes(ivs[1].EndTime))

\* C10 (as claimed): every interval list the add flow persists is one
\* partition of one day: only the last interval ends at 00:00, every other
\* interval ends after it starts, the start times increase strictly, and the
\* durations sum to 1440 minutes.
C10_AddPersistsOneDay ==
    (ret.op = "add-create" /\ ret.err = "") =>
        /\ \A k \in 1..(Len(ret.intervals) - 1) :
               /\ ret.intervals[k].EndTime # Midnight
               /\ convertTimeToMinutes(ret.intervals[k].EndTime)
                      > convertTimeToMinutes(ret.intervals[k].StartTime)
               /\ convertTimeToMinutes(ret.intervals[k].StartTime)
                      < convertTimeToMinutes(ret.intervals[k + 1].StartTime)
        /\ ret.intervals[Len(ret.intervals)].EndTime = Midnight
        /\ TotalMinutes(ret.intervals) = 1440

\* the inputs of the model that parseTimeFormat normalizes to 00:00
MidnightInputs ==
    {i \in TimeInputs : parseTimeFormat(i) = ParseOk(0, 0)}

\* C11 (as claimed): at the end prompt every input that normalizes to 00:00
\* is accepted whatever the start time is, and the step that appends an
\* interval ending at 00:00 ends interval entry: the session does not go back
\* to a prompt for another interval.
C11_MidnightEndTerminates ==
    /\ [](pc = "end" =>
             \A i \in MidnightInputs : endValidate(rev, startTime, i) = "")
    /\ [][(/\ intervals' # intervals
           /\ intervals' # <<>>
           /\ intervals'[Len(intervals')].EndTime = Midnight) => pc' = "idle"]_vars

\* the start time a continuous day has after the intervals of ivs
NextStart(ivs) == IF ivs = <<>> THEN Midnight ELSE ivs[Len(ivs)].EndTime

\* ivs is the beginning of a continuous day-partition that is not complete
\* yet: it starts at 00:00, each start is the previous end, every end is
\* strictly after its start, every rate is non-negative
PartialDay(ivs) ==
    /\ \A k \in 1..Len(ivs) :
           /\ ivs[k].StartTime = NextStart(SubSeq(ivs, 1, k - 1))
           /\ convertTimeToMinutes(ivs[k].EndTime)
                  > convertTimeToMinutes(ivs[k].StartTime)
           /\ ivs[k].UnitsPerHour >= 0

\* the end times that continue or complete a day from the start time t
LaterEnds(t) ==
    {i \in TimeInputs :
        /\ ~parseTimeFormat(i).err
        /\ \/ parseTimeFormat(i).val = Midnight
           \/ convertTimeToMinutes(parseTimeFormat(i).val) > convertTimeToMinutes(t)}

\* C12 (as claimed): while a continuous day-partition is entered in order,
\* the start prompt accepts the next start, the end prompt accepts every end
\* after the start and the end 00:00, the units prompt accepts every
\* non-negative rate, and when the interval that ends at 00:00 is appended
\* entry is over with exactly that list: the session has ended with it (saved
\* or declined at the confirmation), or the start prompt ends the loop on an
\* empty input and the checks after the loop pass the list.
C12_ValidatorComplete ==
    /\ []((PartialDay(intervals) /\ pc = "start" /\ Len(intervals) < MaxIntervals) =>
             startValidate(rev, intervals, NextStart(intervals)) = "")
    /\ []((PartialDay(intervals) /\ pc = "end" /\ startTime = NextStart(intervals)) =>
             \A i \in LaterEnds(startTime) : endValidate(rev, startTime, i) = "")
    /\ []((PartialDay(intervals) /\ pc = "units") =>
             \A i \in UnitsInputs :
                 (ScanFloat(i).ok /\ ScanFloat(i).val >= 0) => unitsValidate(i) = "")
    /\ [][(/\ PartialDay(intervals)
           /\ Len(intervals') = Len(intervals) + 1
           /\ SubSeq(intervals', 1, Len(intervals)) = intervals
           /\ intervals'[Len(intervals')].StartTime = NextStart(intervals)
           /\ intervals'[Len(intervals')].EndTime = Midnight) =>
              \/ pc' = "idle" /\ ret'.op \in {"add-create", "add-quit"}
                              /\ (ret'.op = "add-create" => ret'.intervals = intervals')
              \/ /\ pc' = "start"
                 /\ startValidate(rev', intervals', <<>>) = ""
                 /\ coverageCheck(intervals') = ""]_vars

\* the inputs of the model whose normalized form is not the time t
OtherTimes(t) ==
    {i \in TimeInputs : ~parseTimeFormat(i).err /\ parseTimeFormat(i).val # t}

\* C13: once an interval has been accepted, the start prompt refuses every
\* input whose normalized form differs from the end of the last accepted
\* interval, the start time it passes on is that end, and consecutive
\* intervals of the set always meet (no gap, no overlap).
C13_DiscontinuousStartRejected ==
    /\ []((pc = "start" /\ intervals # <<>>) =>
             \A i \in OtherTimes(intervals[Len(intervals)].EndTime) :
                 startValidate(rev, intervals, i) # "")
    /\ [][(pc = "start" /\ pc' = "end" /\ intervals # <<>>) =>
              startTime' = intervals[Len(intervals)].EndTime]_vars
    /\ [](\A k \in 1..(Len(intervals) - 1) :
             intervals[k + 1].StartTime = intervals[k].EndTime)

\* C13 witness: with one interval accepted, a start time was refused for not
\* matching the previous end.
C13_Witness ==
    /\ pc = "start" /\ intervals # <<>>
    /\ ret.op = "startPrompt"
    /\ ret.err = "start time must match previous end time"

\* the interval rows of the schedule r, and the one inserted first
RowsOf(r) == {i \in basal_intervals : i.basal_record_id = r.id}

FirstRow(r) == CHOOSE i \in RowsOf(r) : \A j \in RowsOf(r) : i.id <= j.id

\* C14: the add flow hands CreateBasalRecord only lists whose first interval
\* starts at 00:00; a session whose first interval starts elsewhere returns
\* without writing to the store (in the body that checks at the start prompt
\* such a first start is refused there); and every schedule the add flow
\* stored has 00:00 as the start of its first interval.
C14_FirstStartMidnight ==
    /\ [][/\ ret'.op = "add-create" =>
                 /\ ret'.intervals # <<>>
                 /\ ret'.intervals[1].StartTime = Midnight
          /\ (/\ pc # "idle" /\ pc' = "idle"
              /\ intervals' # <<>>
              /\ intervals'[1].StartTime # Midnight) =>
                 /\ ret'.op = "add-quit"
                 /\ ret'.err # ""
                 /\ basal_records' = basal_records
                 /\ basal_intervals' = basal_intervals]_vars
    /\ []((rev = 2 /\ pc = "start" /\ intervals = <<>>) =>
             \A i \in OtherTimes(Midnight) : startValidate(rev, intervals, i) # "")
    /\ [](\A r \in basal_records :
             RowsOf(r) # {} => FirstRow(r).start_time = Midnight)

\* C14 witness: a session whose first interval starts at another time than
\* 00:00 ended the loop and was turned down for it.
C14_Witness ==
    /\ ret.op = "add-quit"
    /\ ret.err = "first interval must start at 00:00"
    /\ intervals # <<>>
    /\ intervals[1].StartTime # Midnight
    /\ intervals[Len(intervals)].EndTime = Midnight

\* the inputs of the model whose normalized form is not 00:00 and lies at or
\* before the time t
EarlierEnds(t) ==
    {i \in OtherTimes(Midnight) :
        convertTimeToMinutes(parseTimeFormat(i).val) <= convertTimeToMinutes(t)}

\* C15: the end prompt refuses every input whose normalized form is not
\* 00:00 and whose minutes since midnight are at or below those of the start
\* time; the end time it passes on is 00:00 or after the start; and every
\* interval of the set that does not end at 00:00 ends after it starts.
C15_NonIncreasingEndRejected ==
    /\ [](pc = "end" =>
             \A i \in EarlierEnds(startTime) : endValidate(rev, startTime, i) # "")
    /\ [][(pc = "end" /\ pc' = "units") =>
              \/ endTime' = Midnight
              \/ convertTimeToMinutes(endTime') > convertTimeToMinutes(startTime)]_vars
    /\ [](\A k \in 1..Len(intervals) :
             intervals[k].EndTime # Midnight =>
                 convertTimeToMinutes(intervals[k].EndTime)
                     > convertTimeToMinutes(intervals[k].StartTime))

\* C15 witness: in the body that lets 00:00 pass, the end prompt refused an
\* end time for an interval that starts at noon.
C15_Witness ==
    /\ rev = 1 /\ pc = "end" /\ startTime = Noon
    /\ ret.op = "endPrompt"
    /\ ret.err = "end time must be after start time"

(***************************************************************************)
(* Properties of CalculateDailyBasal.                                      *)
(***************************************************************************)
\* minutes since midnight of a time written HH:MM
ClockMinutes(t) ==
    (10 * DigitVal(t[1]) + DigitVal(t[2])) * 60 + 10 * DigitVal(t[4]) + DigitVal(t[5])

\* the end of an interval as the formula counts it: on the next day when it
\* is not after the start
WrappedEnd(start, end) == IF end <= start THEN end + 1440 ELSE end

\* sum of (end' - start) * unitsPerHour, in minutes x tenths of a unit (600
\* to the unit)
RECURSIVE ClaimedTotal(_)
ClaimedTotal(ivs) ==
    IF ivs = <<>> THEN 0
    ELSE (WrappedEnd(ClockMinutes(ivs[1].StartTime), ClockMinutes(ivs[1].EndTime))
              - ClockMinutes(ivs[1].StartTime)) * ivs[1].UnitsPerHour
         + ClaimedTotal(Tail(ivs))

\* C16: CalculateDailyBasal(intervals) is the sum over the intervals of
\* ((end' - start) / 60) * unitsPerHour with end' = end + 1440 when
\* end <= start; an interval that ends at 00:00 is counted up to minute 1440,
\* an interval 00:00-00:00 counts 24 hours, and the example day totals 22.2
\* units.
C16_DailyBasalFormula ==
    ret.op = "total" =>
        /\ ret.k = ClaimedTotal(ret.intervals)
        /\ \A u \in {0, 8, 10} :
               /\ ret.intervals = <<BasalInterval(Sprintf(18, 0), Midnight, u)>> =>
                      ret.k = (1440 - 18 * 60) * u
               /\ ret.intervals = <<BasalInterval(Midnight, Midnight, u)>> =>
                      ret.k = 24 * 60 * u
        /\ ret.intervals = ExampleDay => ret.k = 222 * 60

\* C16 witness: the total of the example day has been computed.
C16_Witness ==
    ret.op = "total" /\ ret.intervals = ExampleDay /\ ret.k = 222 * 60

(***************************************************************************)
(* Further properties of the store.                                        *)
(***************************************************************************)
\* a set of interval rows as a list of intervals, in the order of insertion
RECURSIVE RowList(_)
RowList(rows) ==
    IF rows = {} THEN <<>>
    ELSE LET first == CHOOSE i \in rows : \A j \in rows : i.id <= j.id
         IN  <<BasalInterval(first.start_time, first.end_time, first.units_per_hour)>>
             \o RowList(rows \ {first})

\* C17: in every state of the store that create and delete calls reach, the
\* total_units of each stored schedule is CalculateDailyBasal of exactly the
\* interval rows that schedule owns.
C17_CachedTotal ==
    \A r \in basal_records : r.total_units = CalculateDailyBasal(RowList(RowsOf(r)))

\* C17 witness: after a schedule was deleted, a schedule of two intervals
\* with a total above zero is stored.
C17_Witness ==
    /\ ret.op = "delete" /\ ret.err = ""
    /\ \E r \in basal_records : Cardinality(RowsOf(r)) = 2 /\ r.total_units > 0

\* the stored schedules with the date d
SameDate(d) == {r \in basal_records : r.date = d}

\* the one of them created last: ids are handed out in increasing order
Latest(recs) == CHOOSE r \in recs : \A q \in recs : q.id <= r.id

\* C18 (as claimed): when GetBasalRecordByDate(target) returns a schedule
\* while several stored schedules have the target date, the schedule is the
\* one created last and the intervals are the interval rows of that schedule
\* and no others.
C18_SameDateLatest ==
    (ret.op = "get" /\ ret.err = "" /\ Cardinality(SameDate(ret.date)) >= 2) =>
        /\ ret.record.ID = Latest(SameDate(ret.date)).id
        /\ {ret.intervals[k].ID : k \in 1..Len(ret.intervals)}
               = {i.id : i \in RowsOf(Latest(SameDate(ret.date)))}
        /\ Len(ret.intervals) = Cardinality(RowsOf(Latest(SameDate(ret.date))))

\* C19: whenever GetBasalRecordByDate(target) returns a schedule, its date is
\* the target date exactly when a schedule with the target date is stored,
\* and runShow prints "Showing closest record from:" with the schedule's
\* date exactly when no stored schedule has the target date (and the target
\* date alone otherwise).
C19_ExactOrClosestLabel ==
    (ret.op = "get" /\ ret.err = "") =>
        /\ (ret.record.Date = ret.date) <=> (SameDate(ret.date) # {})
        /\ (ret.out[1] = "closest") <=> (SameDate(ret.date) = {})
        /\ (ret.out[1] = "exact") <=> (SameDate(ret.date) # {})
        /\ ret.out[1] = "closest" => ret.out[2] = Format(ret.record.Date)
        /\ ret.out[1] = "exact" => ret.out[2] = Format(ret.date)

\* C19 witness: runShow labelled a schedule of another date as the closest
\* one while schedules are stored before and after the target date.
C19_Witness ==
    /\ ret.op = "get" /\ ret.err = ""
    /\ ret.out[1] = "closest"
    /\ ret.record.Date # ret.date
    /\ \E r \in basal_records : r.date < ret.date
    /\ \E r \in basal_records : r.date > ret.date

\* C20: ListBasalRecords returns, without error, a list that holds every
\* stored schedule exactly once, with its id and date, in which no entry is
\* dated before the entry after it; on an empty store the list is empty.
C20_ListNewestFirst ==
    ret.op = "list" =>
        /\ ret.err = ""
        /\ Len(ret.records) = Cardinality(basal_records)
        /\ \A r \in basal_records :
               \E k \in 1..Len(ret.records) :
                   ret.records[k].ID = r.id /\ ret.records[k].Date = r.date
        /\ \A k \in 1..(Len(ret.records) - 1) :
               ret.records[k].Date >= ret.records[k + 1].Date
        /\ basal_records = {} => ret.records = <<>>

\* C20 witness: the list holds two schedules, the one created later first
\* because its date is the later one.
C20_Witness ==
    /\ ret.op = "list" /\ Len(ret.records) = 2
    /\ ret.records[1].Date > ret.records[2].Date
    /\ ret.records[1].ID > ret.records[2].ID

\* C21: CreateBasalRecord leaves every schedule row and interval row that
\* was stored before it as it was, schedules of the same date included;
\* DeleteBasalRecord(id) leaves every row that id does not own as it was and
\* adds none; GetBasalRecordByDate and ListBasalRecords leave both tables as
\* they were.
C21_NoMutationInPlace ==
    [][/\ ret'.op = "create" =>
              /\ basal_records \subseteq basal_records'
              /\ basal_intervals \subseteq basal_intervals'
       /\ ret'.op = "delete" =>
              /\ {r \in basal_records : r.id # ret'.id}
                     = {r \in basal_records' : r.id # ret'.id}
              /\ {i \in basal_intervals : i.basal_record_id # ret'.id}
                     = {i \in basal_intervals' : i.basal_record_id # ret'.id}
              /\ basal_records' \subseteq basal_records
              /\ basal_intervals' \subseteq basal_intervals
       /\ ret'.op \in {"get", "list"} =>
              /\ basal_records' = basal_records
              /\ basal_intervals' = basal_intervals]_vars

\* C21 witness: a schedule was created for a date that an older schedule,
\* still stored with its intervals, has too.
C21_Witness ==
    /\ ret.op = "create" /\ ret.err = ""
    /\ \E r \in basal_records :
           r.id < ret.id /\ r.date = ret.date /\ RowsOf(r) # {}

\* t is a clock time HH:MM between 00:00 and 23:59
IsClockTime(t) ==
    /\ Len(t) = 5
    /\ t[3] = ":"
    /\ \A k \in {1, 2, 4, 5} : t[k] \in Digits
    /\ 10 * DigitVal(t[1]) + DigitVal(t[2]) <= 23
    /\ 10 * DigitVal(t[4]) + DigitVal(t[5]) <= 59

\* C22 (as claimed): every interval row in the store has a start_time and an
\* end_time that are clock times within 00:00-23:59, and a CreateBasalRecord
\* given an interval with a start or end outside that range fails and stores
\* nothing.
C22_ChecksKeepClockTimes ==
    /\ \A i \in basal_intervals : IsClockTime(i.start_time) /\ IsClockTime(i.end_time)
    /\ (/\ ret.op = "create"
        /\ \E k \in 1..Len(intervals) :
               ~IsClockTime(intervals[k].StartTime) \/ ~IsClockTime(intervals[k].EndTime)) =>
           /\ ret.err # ""
           /\ basal_records = {} /\ basal_intervals = {}

(***************************************************************************)
(* Properties of parseTimeFormat.                                          *)
(***************************************************************************)
\* t is made of digits only
AllDigits(t) == \A k \in 1..Len(t) : t[k] \in Digits

\* t has one of the shapes H:MM, HH:MM, HMM, HHMM
TimeShape(t) ==
    \/ Len(t) \in {3, 4} /\ AllDigits(t)
    \/ Len(t) = 4 /\ t[2] = ":" /\ AllDigits(<<t[1], t[3], t[4]>>)
    \/ Len(t) = 5 /\ t[3] = ":" /\ AllDigits(<<t[1], t[2], t[4], t[5]>>)

\* the hour and the minute a text of one of the shapes is written with
ShapeHour(t) ==
    IF Len(t) = 3 \/ (Len(t) = 4 /\ t[2] = ":") THEN DigitVal(t[1])
    ELSE 10 * DigitVal(t[1]) + DigitVal(t[2])

ShapeMinute(t) == 10 * DigitVal(t[Len(t) - 1]) + DigitVal(t[Len(t)])

\* C23 (as claimed): parseTimeFormat returns an error, and no normalized
\* time, for every input that (spaces around it apart) is not of the shape
\* H:MM, HH:MM, HMM or HHMM, and for every input of such a shape whose hour
\* is above 23 or whose minute is above 59; "25:00", "abc" and "99" are
\* among them.
C23_ParseRejects ==
    ret.op = "parse" =>
        /\ ~TimeShape(TrimSpace(startTime)) => ret.err # "" /\ ret.out = <<>>
        /\ (/\ TimeShape(TrimSpace(startTime))
            /\ \/ ShapeHour(TrimSpace(startTime)) > 23
               \/ ShapeMinute(TrimSpace(startTime)) > 59) => ret.err # "" /\ ret.out = <<>>
        /\ startTime \in {Sprintf(25, 0), <<"a", "b", "c">>, <<"9", "9">>} => ret.err # ""

\* C24: whenever parseTimeFormat succeeds, its output is the zero-padded
\* five-character HH:MM form with the hour in 0..23 and the minute in 0..59,
\* parseTimeFormat of the output is the output again, and
\* convertTimeToMinutes of the output is its hour * 60 + minute, a number in
\* 0..1439.
C24_ParseCanonical ==
    (ret.op = "parse" /\ ret.err = "") =>
        /\ IsClockTime(ret.out)
        /\ parseTimeFormat(ret.out) = [err |-> FALSE, val |-> ret.out]
        /\ ret.k \in 0..1439
        /\ ret.k = ClockMinutes(ret.out)

\* C24 witness: an input written without a colon was normalized to a time
\* after noon with minutes.
C24_Witness ==
    /\ ret.op = "parse" /\ ret.err = ""
    /\ Len(startTime) = 4 /\ AllDigits(startTime)
    /\ ret.k > 720 /\ ret.k % 60 # 0

(***************************************************************************)
(* Further properties of the add flow.                                     *)
(***************************************************************************)
\* x >= 0, which NaN is not
NonNegative(x) == x # NaN /\ x >= 0

\* C25 (as claimed): every interval the add flow has appended, and every
\* interval row it has stored, has a rate that is a number at or above zero,
\* and the units prompt refuses every input that is not read as such a
\* number.
C25_RatesNonNegative ==
    /\ \A k \in 1..Len(intervals) : NonNegative(intervals[k].UnitsPerHour)
    /\ \A i \in basal_intervals : NonNegative(i.units_per_hour)
    /\ pc = "units" =>
           \A i \in UnitsInputs :
               (~ScanFloat(i).ok \/ ~NonNegative(ScanFloat(i).val)) =>
                   unitsValidate(i) # ""

(***************************************************************************)
(* Ownership of the interval rows.                                         *)
(***************************************************************************)
\* C26: in every state of the store that successful and failed create and
\* delete calls reach, the basal_record_id of every interval row is the id
\* of a schedule row in the store, and no two schedule rows have the same
\* id.
C26_NoOrphanIntervals ==
    /\ \A i \in basal_intervals : \E r \in basal_records : r.id = i.basal_record_id
    /\ \A r, q \in basal_records : r.id = q.id => r = q

\* C26 witness: after a schedule with intervals was deleted, another
\* schedule and its intervals are stored.
C26_Witness ==
    /\ ret.op = "delete" /\ ret.err = ""
    /\ basal_intervals # {}
    /\ seq_intervals > Cardinality(basal_intervals)

(***************************************************************************)
(* Properties of the graph.                                                *)
(***************************************************************************)
\* the intervals of ivs that cover minute i of the day, an interval whose
\* end is not after its start running on to its end on the next day
Covering(ivs, i) ==
    {k \in 1..Len(ivs) :
        /\ ClockMinutes(ivs[k].StartTime) <= i
        /\ i < WrappedEnd(ClockMinutes(ivs[k].StartTime), ClockMinutes(ivs[k].EndTime))}

\* sum of the values of a graph: each value times the minutes that have it
RECURSIVE SumByValue(_, _)
SumByValue(data, values) ==
    IF values = {} THEN 0
    ELSE LET v == CHOOSE x \in values : TRUE
         IN  v * Cardinality({i \in DOMAIN data : data[i] = v})
             + SumByValue(data, values \ {v})

GraphSum(data) == SumByValue(data, {data[i] : i \in DOMAIN data})

\* C27 (as claimed): for every schedule the add flow stored, the graph data
\* of its intervals gives each of the 1440 minutes the rate of the one
\* interval that covers it (none left out, none written by two intervals),
\* and the sum of the 1440 rates, in rate x minutes, is CalculateDailyBasal
\* of the same intervals.
C27_GraphAgreesWithTotal ==
    (ret.op = "show" /\ ret.err = "") =>
        /\ DOMAIN ret.graph = 0..1439
        /\ \A i \in 0..1439 :
               /\ Cardinality(Covering(ret.intervals, i)) = 1
               /\ \A k \in Covering(ret.intervals, i) :
                      ret.graph[i] = ret.intervals[k].UnitsPerHour
        /\ GraphSum(ret.graph) = CalculateDailyBasal(ret.intervals)

(***************************************************************************)
(* Properties of the ask command.                                          *)
(***************************************************************************)
\* C28 (as claimed): runAsk hands a generated query to the database only if
\* the query, trimmed and in lower case, starts with "select" and contains
\* none of "drop", "delete", "update", "insert"; and no run of runAsk
\* changes the schedule rows or the interval rows.
C28_AskReadOnly ==
    [][ret'.op = "ask" =>
          /\ ret'.err # "invalid query: only SELECT queries are allowed" =>
                 /\ HasPrefix(TrimSpace(ToLower(ret'.out)), Select)
                 /\ \A w \in Forbidden : ~Contains(TrimSpace(ToLower(ret'.out)), w)
          /\ basal_records' = basal_records
          /\ basal_intervals' = basal_intervals]_vars

====
